---- MODULE Spec2Model ----
(***************************************************************************)
(* Multilingual news summarizer: the processing pipeline (pipeline.py),    *)
(* the SQLite article cache (db.py) and the cache gateway that wraps them  *)
(* (process_article_with_cache, called from app.py and cache_demo.py).     *)
(*                                                                         *)
(* Text is kept symbolically: a string is a sequence of pieces, each piece *)
(* a slice [from, from+len) of a named underlying string (a scraped body,  *)
(* a literal, the output of a model on a given input).  Lengths, slices    *)
(* and concatenation are exact; two strings are equal iff their pieces     *)
(* are.                                                                    *)
(***************************************************************************)
EXTENDS Integers, Sequences, FiniteSets, TLC

(***************************************************************************)
(* Bounds of the model (not program constants).                            *)
(***************************************************************************)
\* AUTOINCREMENT ids handed out over a run: successful INSERTs are capped.
MaxId == 2
\* The seconds the clock runs through: 0..MaxClock.
MaxClock == 2

(***************************************************************************)
(* Program constants.                                                      *)
(***************************************************************************)
MinDetectLen == 10        \* pipeline.py:65   len(text) < 10
DetectSample == 500       \* pipeline.py:71   text[:500]
ChunkSize == 500          \* pipeline.py:124  len(text) > 500, text[i:i+500]
MinSummarizeLen == 200    \* pipeline.py:186  len(text) < 200
MaxSummarizeLen == 4000   \* pipeline.py:205  len(text) > 4000, text[:4000]
DefaultMinLength == 50    \* pipeline.py:171  min_length=50
DemoMaxLength == 100      \* cache_demo.py:87 summary_max_length=100

Min(a, b) == IF a < b THEN a ELSE b
Max(a, b) == IF a > b THEN a ELSE b

(***************************************************************************)
(* Python values.  A str is a sequence of pieces; None and a str are kept  *)
(* apart by a wrapper: PyNone is <<>>, the str s is <<s>>.  A dict is a    *)
(* function from its keys to such values; an optional dict (a function's   *)
(* "dict or None" result) is <<>> or <<d>>.                                *)
(***************************************************************************)
Mk(kind, tag, arg, mx, mn, len) ==
    IF len = 0 THEN << >>
    ELSE << [kind |-> kind, tag |-> tag, arg |-> arg, mx |-> mx, mn |-> mn,
             from |-> 0, len |-> len] >>

\* A string literal of the program, with its length.
Lit(text, len) == Mk("lit", text, << >>, 0, 0, len)

RECURSIVE StrLen(_)
StrLen(s) == IF s = << >> THEN 0 ELSE Head(s).len + StrLen(Tail(s))

\* Python's s[a:b] for 0 <= a, 0 <= b.
RECURSIVE Slice(_, _, _)
Slice(s, a, b) ==
    IF s = << >> \/ b <= a THEN << >>
    ELSE LET p == Head(s)
             lo == Min(a, p.len)
             hi == Min(b, p.len)
             rest == Slice(Tail(s), Max(a - p.len, 0), Max(b - p.len, 0))
         IN  IF hi > lo
             THEN << [p EXCEPT !.from = p.from + lo, !.len = hi - lo] >> \o rest
             ELSE rest

SameOrigin(p, q) ==
    /\ p.kind = q.kind /\ p.tag = q.tag /\ p.arg = q.arg
    /\ p.mx = q.mx /\ p.mn = q.mn

\* Python's s + t: adjacent slices of one underlying string become one piece.
Cat(s, t) ==
    IF s = << >> THEN t
    ELSE IF t = << >> THEN s
    ELSE LET l == s[Len(s)]
             f == t[1]
         IN  IF SameOrigin(l, f) /\ l.from + l.len = f.from
             THEN SubSeq(s, 1, Len(s) - 1)
                    \o << [l EXCEPT !.len = l.len + f.len] >> \o Tail(t)
             ELSE s \o t

PyNone == << >>
PyStr(s) == << s >>
IsNone(v) == v = << >>
StrOf(v) == v[1]
\* Python truthiness of a str-or-None value: "not v" is ~Truthy(v).
Truthy(v) == ~IsNone(v) /\ StrLen(StrOf(v)) > 0

Has(d, k) == k \in DOMAIN d
\* dict.get(k, default)
Get(d, k, default) == IF Has(d, k) THEN d[k] ELSE default

NoDict == << >>
Some(d) == << d >>
IsSome(o) == o # << >>
The(o) == o[1]

(***************************************************************************)
(* The world outside the program: the scraped bodies the runs draw on, and *)
(* what the seeded classifier and the (deterministically decoding) models  *)
(* answer on them.  The classifier is seeded (pipeline.py:21) and the      *)
(* models decode without sampling (pipeline.py:210), so each is a function *)
(* of its input; whether a load or a call raises is chosen per call.       *)
(***************************************************************************)
Sources == {"s_en", "s_ar", "s_fr", "s_de", "s_num", "s_short"}

SrcLen(src) ==
    CASE src = "s_en" -> 4100
      [] src = "s_ar" -> 600
      [] src = "s_fr" -> 180
      [] src = "s_de" -> 300
      [] src = "s_num" -> 40
      [] src = "s_short" -> 5

Body(src) == Mk("raw", src, << >>, 0, 0, SrcLen(src))

\* langdetect.detect(sample): a code, or an exception (no features in text).
Classifier(sample) ==
    LET src == Head(sample).tag
    IN  CASE src = "s_en" -> [raised |-> FALSE, code |-> "en"]
          [] src = "s_ar" -> [raised |-> FALSE, code |-> "ar"]
          [] src = "s_fr" -> [raised |-> FALSE, code |-> "fr"]
          [] src = "s_de" -> [raised |-> FALSE, code |-> "de"]
          [] src = "s_short" -> [raised |-> FALSE, code |-> "en"]
          [] OTHER -> [raised |-> TRUE, code |-> ""]

\* _translator_xx(chunk, max_length=512)[0]['translation_text']
TranslatorOut(lang, chunk) ==
    Mk("tr", lang, chunk, 512, 0, (9 * StrLen(chunk)) \div 10)

\* _summarizer(text, max_length, min_length, do_sample=False)[0]['summary_text']
SummarizerOut(text, max_length, min_length) ==
    Mk("sum", "bart", text, max_length, min_length,
       Min(StrLen(text), 4 * max_length))

(***************************************************************************)
(* pipeline.py                                                             *)
(***************************************************************************)
\* The table of supported languages with a German entry added.
SupportedLanguagesWithGerman == {"ar", "en", "fr", "de"}

SUPPORTED_LANGUAGES == {"ar", "en", "fr"}

LangCode(code) == PyStr(Lit(code, 2))
CodeOf(v) == Head(StrOf(v)).tag

\* detect_language without its "len(text) < 10" test.
DetectLanguageNoFloor(text) ==
    IF ~Truthy(text) THEN PyNone
    ELSE LET sample == Slice(StrOf(text), 0, DetectSample)
             detected == Classifier(sample)
         IN  IF detected.raised THEN PyNone
             ELSE IF detected.code \in SUPPORTED_LANGUAGES
                  THEN LangCode(detected.code)
                  ELSE PyNone

\* detect_language without its "detected in SUPPORTED_LANGUAGES" test.
DetectLanguageUnchecked(text) ==
    IF ~Truthy(text) \/ StrLen(StrOf(text)) < MinDetectLen THEN PyNone
    ELSE LET sample == Slice(StrOf(text), 0, DetectSample)
             detected == Classifier(sample)
         IN  IF detected.raised THEN PyNone ELSE LangCode(detected.code)

\* detect_language(text): a supported code, or None.
DetectLanguage(text) ==
    IF ~Truthy(text) \/ StrLen(StrOf(text)) < MinDetectLen THEN PyNone
    ELSE LET sample == Slice(StrOf(text), 0, DetectSample)
             detected == Classifier(sample)
         IN  IF detected.raised THEN PyNone
             ELSE IF detected.code \in SUPPORTED_LANGUAGES
                  THEN LangCode(detected.code)
                  ELSE PyNone

\* The split with slices one character too long: text[i:i+501].
RECURSIVE ChunksFromOverlap(_, _)
ChunksFromOverlap(text, i) ==
    IF i >= StrLen(text) THEN << >>
    ELSE << Slice(text, i, i + ChunkSize + 1) >> \o ChunksFromOverlap(text, i + ChunkSize)

\* [text[i:i+500] for i in range(0, len(text), 500)]
RECURSIVE ChunksFrom(_, _)
ChunksFrom(text, i) ==
    IF i >= StrLen(text) THEN << >>
    ELSE << Slice(text, i, i + ChunkSize) >> \o ChunksFrom(text, i + ChunkSize)

\* The translator called on the whole text whatever its length.
TranslatorInputsWhole(text) == << text >>

\* What the translator is called on, in order: the chunks of a long text,
\* the whole text otherwise.
TranslatorInputs(text) ==
    IF StrLen(text) > ChunkSize THEN ChunksFrom(text, 0) ELSE << text >>

Space == Lit(" ", 1)

\* ''.join(parts): the parts with nothing between them.
RECURSIVE JoinNoSeparator(_)
JoinNoSeparator(parts) ==
    IF parts = << >> THEN << >>
    ELSE Cat(parts[1], JoinNoSeparator(Tail(parts)))

\* ' '.join(parts)
RECURSIVE JoinSpace(_)
JoinSpace(parts) ==
    IF parts = << >> THEN << >>
    ELSE IF Len(parts) = 1 THEN parts[1]
    ELSE Cat(Cat(parts[1], Space), JoinSpace(Tail(parts)))

\* The calls with a try/except around each one: a chunk whose call raises
\* is kept untranslated, the others are translated, and the join is returned.
TranslateCallsPerChunk(text, lang, failAt) ==
    LET ins == TranslatorInputs(text)
        outs == [k \in 1..Len(ins) |->
                   IF k = failAt THEN ins[k] ELSE TranslatorOut(lang, ins[k])]
    IN  [exc |-> FALSE, val |-> JoinSpace(outs)]

\* The try block of translate_to_english once the handle is there: the calls
\* run in order; failAt = k > 0 means the k-th call raises (0: none does).
\* exc: an exception leaves the try block.
TranslateCalls(text, lang, failAt) ==
    LET ins == TranslatorInputs(text)
        outs == [k \in 1..Len(ins) |-> TranslatorOut(lang, ins[k])]
    IN  IF failAt \in 1..Len(ins)
        THEN [exc |-> TRUE, val |-> << >>]
        ELSE [exc |-> FALSE, val |-> JoinSpace(outs)]

\* translate_to_english's "except Exception": the original text is returned.
TranslateGuard(text, attempt) ==
    IF attempt.exc THEN [exc |-> FALSE, val |-> text] ELSE attempt

\* The summarizer called on the text without the truncation.
SummarizerInputWhole(text) == text

\* The truncation keeping the last 4000 characters: text[-4000:].
SummarizerInputTail(text) ==
    IF StrLen(text) > MaxSummarizeLen
    THEN Slice(text, StrLen(text) - MaxSummarizeLen, StrLen(text))
    ELSE text

\* The input the summarizer is called on.
SummarizerInput(text) ==
    IF StrLen(text) > MaxSummarizeLen THEN Slice(text, 0, MaxSummarizeLen)
    ELSE text

\* The model call of summarize_text; ok = FALSE means the call raises.
SummarizeCall(text, max_length, min_length, ok) ==
    IF ok
    THEN [exc |-> FALSE, val |-> SummarizerOut(text, max_length, min_length)]
    ELSE [exc |-> TRUE, val |-> << >>]

\* summarize_text without its "except Exception".
SummarizeGuardReraise(text, attempt) == attempt

\* summarize_text's "except Exception": text, as it is then, is returned.
SummarizeGuard(text, attempt) ==
    IF attempt.exc THEN [exc |-> FALSE, val |-> text] ELSE attempt

NA == PyStr(Lit("N/A", 3))

\* process_article's initial result dict.
InitialResult(article_data) ==
    [url |-> Get(article_data, "url", NA),
     source |-> Get(article_data, "source", PyStr(Lit("Unknown", 7))),
     title |-> Get(article_data, "title", PyStr(Lit("Untitled", 8))),
     date |-> Get(article_data, "date", NA),
     original_language |-> PyNone,
     original_text |-> article_data["text"],
     english_text |-> PyNone,
     summary |-> PyNone,
     processing_time |-> PyNone]

\* f"{elapsed:.1f}s", elapsed given in milliseconds.
FormatElapsed(ms) ==
    LET tenths == (ms + 50) \div 100
        whole == ToString(tenths \div 10)
        digits == IF tenths < 100 THEN 1 ELSE IF tenths < 1000 THEN 2 ELSE 3
    IN  PyStr(Lit(whole \o "." \o ToString(tenths % 10) \o "s", digits + 3))

(***************************************************************************)
(* db.py: the articles table.  The table is a sequence of rows in insert   *)
(* order; nothing in the representation keeps urls apart, only the INSERT  *)
(* does (url TEXT UNIQUE).  A database error (the "except Exception"       *)
(* branches) is chosen per call.                                           *)
(***************************************************************************)
RequiredFields ==
    <<"url", "source", "title", "original_language", "original_text", "summary">>

\* The validation loop with "field not in article_data" alone: an empty
\* value passes.
ValidRecordPresentOnly(article_data) ==
    \A i \in 1..Len(RequiredFields) : Has(article_data, RequiredFields[i])

\* save_article's validation loop: every required field present and truthy.
ValidRecord(article_data) ==
    \A i \in 1..Len(RequiredFields) :
        /\ Has(article_data, RequiredFields[i])
        /\ Truthy(article_data[RequiredFields[i]])

RowsWithUrl(table, url) == {i \in 1..Len(table) : table[i].url = url}

\* CURRENT_TIMESTAMP at second t.
Timestamp(t) == PyStr(Lit("ts" \o ToString(t), 19))

\* The INSERT with summary and english_text in each other's place.
RowOfSwapped(article_data, id, t) ==
    [id |-> id,
     url |-> article_data["url"],
     source |-> article_data["source"],
     title |-> article_data["title"],
     original_language |-> article_data["original_language"],
     original_text |-> article_data["original_text"],
     english_text |-> article_data["summary"],
     summary |-> Get(article_data, "english_text", PyNone),
     date_published |-> Get(article_data, "date", NA),
     date_processed |-> Timestamp(t),
     processing_time |-> Get(article_data, "processing_time", NA)]

\* The row the INSERT of save_article writes.
RowOf(article_data, id, t) ==
    [id |-> id,
     url |-> article_data["url"],
     source |-> article_data["source"],
     title |-> article_data["title"],
     original_language |-> article_data["original_language"],
     original_text |-> article_data["original_text"],
     english_text |-> Get(article_data, "english_text", PyNone),
     summary |-> article_data["summary"],
     date_published |-> Get(article_data, "date", NA),
     date_processed |-> Timestamp(t),
     processing_time |-> Get(article_data, "processing_time", NA)]

\* The table without UNIQUE on url.
UniqueViolationOff(table, article_data) == FALSE

\* The UNIQUE constraint on url: the INSERT raises sqlite3.IntegrityError.
UniqueViolation(table, article_data) ==
    RowsWithUrl(table, article_data["url"]) # {}

\* save_article without its conn.commit(): True is returned, nothing is kept.
SaveArticleNoCommit(table, article_data, id, t, dbError) ==
    IF ~ValidRecord(article_data)
    THEN [ok |-> FALSE, exc |-> FALSE, why |-> "invalid", table |-> table]
    ELSE IF dbError
    THEN [ok |-> FALSE, exc |-> FALSE, why |-> "error", table |-> table]
    ELSE IF UniqueViolation(table, article_data)
    THEN [ok |-> FALSE, exc |-> FALSE, why |-> "duplicate", table |-> table]
    ELSE [ok |-> TRUE, exc |-> FALSE, why |-> "saved", table |-> table]

\* save_article without its "except sqlite3.IntegrityError" and "except
\* Exception": what the INSERT raises leaves the function.
SaveArticleUncaught(table, article_data, id, t, dbError) ==
    IF ~ValidRecord(article_data)
    THEN [ok |-> FALSE, exc |-> FALSE, why |-> "invalid", table |-> table]
    ELSE IF dbError
    THEN [ok |-> FALSE, exc |-> TRUE, why |-> "error", table |-> table]
    ELSE IF UniqueViolation(table, article_data)
    THEN [ok |-> FALSE, exc |-> TRUE, why |-> "duplicate", table |-> table]
    ELSE [ok |-> TRUE, exc |-> FALSE, why |-> "saved",
          table |-> Append(table, RowOf(article_data, id, t))]

\* save_article with INSERT OR REPLACE: a row with the same url is replaced.
SaveArticleReplace(table, article_data, id, t, dbError) ==
    IF ~ValidRecord(article_data)
    THEN [ok |-> FALSE, exc |-> FALSE, why |-> "invalid", table |-> table]
    ELSE IF dbError
    THEN [ok |-> FALSE, exc |-> FALSE, why |-> "error", table |-> table]
    ELSE [ok |-> TRUE, exc |-> FALSE, why |-> "saved",
          table |-> Append(SelectSeq(table, LAMBDA row : row.url # article_data["url"]),
                           RowOf(article_data, id, t))]

\* save_article(article_data) on the table, with id the next AUTOINCREMENT
\* value and t the time of the insert; dbError: the database raises.
\* ok is the returned bool, why tells the branches apart, and exc says
\* whether an exception leaves the function (both handlers catch: never).
SaveArticle(table, article_data, id, t, dbError) ==
    IF ~ValidRecord(article_data)
    THEN [ok |-> FALSE, exc |-> FALSE, why |-> "invalid", table |-> table]
    ELSE IF dbError
    THEN [ok |-> FALSE, exc |-> FALSE, why |-> "error", table |-> table]
    ELSE IF UniqueViolation(table, article_data)
    THEN [ok |-> FALSE, exc |-> FALSE, why |-> "duplicate", table |-> table]
    ELSE [ok |-> TRUE, exc |-> FALSE, why |-> "saved",
          table |-> Append(table, RowOf(article_data, id, t))]

\* The dict with 'date' read from the date_processed column.
ArticleOfRowProcessed(row) ==
    [id |-> row.id,
     url |-> row.url,
     source |-> row.source,
     title |-> row.title,
     original_language |-> row.original_language,
     original_text |-> row.original_text,
     english_text |-> row.english_text,
     summary |-> row.summary,
     date |-> row.date_processed,
     date_processed |-> row.date_processed,
     processing_time |-> row.processing_time]

\* The dict get_cached_article builds from a row.
ArticleOfRow(row) ==
    [id |-> row.id,
     url |-> row.url,
     source |-> row.source,
     title |-> row.title,
     original_language |-> row.original_language,
     original_text |-> row.original_text,
     english_text |-> row.english_text,
     summary |-> row.summary,
     date |-> row.date_published,
     date_processed |-> row.date_processed,
     processing_time |-> row.processing_time]

\* get_cached_article with the SELECT's WHERE url = ? left out.
GetCachedArticleAnyRow(table, url, dbError) ==
    IF dbError \/ table = << >> THEN NoDict
    ELSE Some(ArticleOfRow(table[1]))

\* get_cached_article(url): the dict of the first row with that url, or None
\* (no such row, or the database raised).
GetCachedArticle(table, url, dbError) ==
    IF dbError THEN NoDict
    ELSE LET hits == RowsWithUrl(table, url)
         IN  IF hits = {} THEN NoDict
             ELSE Some(ArticleOfRow(table[CHOOSE i \in hits : \A j \in hits : i <= j]))

\* article_exists(url)
ArticleExists(table, url, dbError) ==
    IF dbError THEN FALSE ELSE Cardinality(RowsWithUrl(table, url)) > 0

\* clear_cache(): the table after it, and the count it returns.
ClearCacheResult(table, dbError) ==
    IF dbError THEN [table |-> table, count |-> 0]
    ELSE [table |-> << >>, count |-> Len(table)]

\* The second a date_processed value stands for.
SecondOf(stamp) == CHOOSE t \in 0..MaxClock : Timestamp(t) = stamp

\* ORDER BY date_processed DESC: the orders the SELECT may give the rows in,
\* as sequences of row positions.  Rows stamped with the same second come
\* in whatever order the engine picks.
OrderedByDateProcessed(table) ==
    {p \in [1..Len(table) -> 1..Len(table)] :
        /\ \A i, j \in 1..Len(table) : i # j => p[i] # p[j]
        /\ \A i, j \in 1..Len(table) :
              i < j => SecondOf(table[p[i]].date_processed)
                          >= SecondOf(table[p[j]].date_processed)}

\* get_all_articles with "if limit is not None" for "if limit": LIMIT 0 is
\* passed on to the SELECT.
GetAllArticlesLimitZero(table, limit, dbError) ==
    IF dbError THEN {<< >>}
    ELSE LET n == IF IsSome(limit)
                  THEN Min(The(limit), Len(table))
                  ELSE Len(table)
         IN  {[i \in 1..n |-> ArticleOfRow(table[p[i]])] :
                 p \in OrderedByDateProcessed(table)}

\* get_all_articles(limit): the lists it may return; limit is Some(n) or
\* NoDict for None.  "if limit:" takes the LIMIT branch for a nonzero n only;
\* [] when the database raised.
GetAllArticles(table, limit, dbError) ==
    IF dbError THEN {<< >>}
    ELSE LET n == IF IsSome(limit) /\ The(limit) # 0
                  THEN Min(The(limit), Len(table))
                  ELSE Len(table)
         IN  {[i \in 1..n |-> ArticleOfRow(table[p[i]])] :
                 p \in OrderedByDateProcessed(table)}

(***************************************************************************)
(* app.py                                                                  *)
(***************************************************************************)
\* words_to_tokens(words) == int(words * 1.33)
WordsToTokens(words) == (words * 133) \div 100

\* Positions of the "Summary Length (words)" slider the runs use.
SliderWords == {100}

(***************************************************************************)
(* Raw articles the runs draw on (what the scraper, or any other caller,   *)
(* hands over): dicts with url, source, title, text, date; a key may be    *)
(* missing where process_article provides for it.                          *)
(***************************************************************************)
Url1 == PyStr(Lit("https://www.naharnet.com/stories/en/1", 37))
Url2 == PyStr(Lit("https://beirut-today.com/ar/2", 29))
Title1 == PyStr(Lit("Bird murals rise", 16))

Article(url, src) ==
    [url |-> url, source |-> PyStr(Lit("Naharnet", 8)), title |-> Title1,
     text |-> PyStr(Body(src)), date |-> PyStr(Lit("2 hours ago", 11))]

RawArticles ==
    { Article(Url1, "s_en"),
      [Article(Url1, "s_ar") EXCEPT !.date = PyNone],
      [url |-> Url1, text |-> PyStr(Body("s_fr"))],
      Article(Url2, "s_short"),
      Article(Url2, "s_de"),
      Article(Url2, "s_num"),
      [Article(Url2, "s_en") EXCEPT !.text = PyNone],
      [Article(Url2, "s_en") EXCEPT !.text = PyStr(<< >>)],
      [url |-> Url2, source |-> PyStr(Lit("Naharnet", 8)), title |-> Title1] }

\* The articles the gateway runs are asked for.
GatewayArticles ==
    { Article(Url1, "s_en"),
      [url |-> Url1, text |-> PyStr(Body("s_fr"))],
      Article(Url2, "s_short"),
      Article(Url2, "s_de"),
      [url |-> Url2, source |-> PyStr(Lit("Naharnet", 8)), title |-> Title1] }

\* Wall-clock durations of a pipeline run, in milliseconds.
ElapsedMs == {12, 41260}

\* Records handed to save_article directly (db.test_database, a shell).
ByHand(url, title) ==
    [url |-> url, source |-> PyStr(Lit("MTV Lebanon", 11)), title |-> title,
     original_language |-> LangCode("en"),
     original_text |-> PyStr(Body("s_en")),
     summary |-> PyStr(Lit("by hand", 7))]

DirectRecords ==
    { ByHand(Url1, Title1), ByHand(Url2, Title1), ByHand(Url2, PyStr(<< >>)) }

(***************************************************************************)
(* State.                                                                  *)
(***************************************************************************)
VARIABLES
    store,      \* the articles table: rows in insert order
    nextId,     \* the next AUTOINCREMENT id
    clock,      \* CURRENT_TIMESTAMP, in seconds (the runs stay within one second)
    handle,     \* _translator_ar, _translator_fr, _summarizer: loaded or None
    pc,         \* per caller: where it is
    call,       \* per caller: the request (program, article, force_refresh, ...)
    res,        \* per caller: process_article's result dict, as built so far
    ret,        \* per caller: what the gateway returned
    result1,    \* per caller: cache_demo's result1
    trace,      \* per caller: the steps taken since it left idle, in order
    sent        \* per caller: the model invocations of its call, in order

vars == <<store, nextId, clock, handle, pc, call, res, ret, result1, trace, sent>>

Callers == {"c1"}

\* All processes that can make requests: a second one for the runs in which
\* two requests overlap (two browser sessions of the app).
Sessions == {"c1", "c2"}

NoCall == [prog |-> "none", n |-> 0, art |-> << >>, force |-> FALSE, maxlen |-> 0]

Init ==
    /\ store = << >>
    /\ nextId = 1
    /\ clock = 0
    /\ handle = [ar |-> FALSE, fr |-> FALSE, sum |-> FALSE]
    /\ pc = [c \in Sessions |-> "idle"]
    /\ call = [c \in Sessions |-> NoCall]
    /\ res = [c \in Sessions |-> NoDict]
    /\ ret = [c \in Sessions |-> NoDict]
    /\ result1 = [c \in Sessions |-> NoDict]
    /\ trace = [c \in Sessions |-> << >>]
    /\ sent = [c \in Sessions |-> << >>]

Art(c) == The(call[c].art)
Log(c, what) == trace' = [trace EXCEPT ![c] = Append(@, what)]
Goto(c, where) == pc' = [pc EXCEPT ![c] = where]
SetRes(c, key, val) == res' = [res EXCEPT ![c] = Some([The(@) EXCEPT ![key] = val])]

(***************************************************************************)
(* The cache gateway, process_article_with_cache(article, force_refresh,   *)
(* summary_max_length): look the url up unless force_refresh; on a miss    *)
(* run process_article and, if it produced a record, save_article it;      *)
(* return the record.                                                      *)
(***************************************************************************)
\* Where a gateway call starts.
GatewayEntry(force) == IF force THEN "process" ELSE "lookup"

\* What the gateway does with process_article's result before returning it:
\* a record is handed to save_article, None is not.
GatewaySaves(result) == IsSome(result)

\* app.py: the Summarize button, with the checkbox and the slider.
AppCall(c) ==
    /\ pc[c] = "idle"
    /\ \E art \in GatewayArticles, force \in BOOLEAN, words \in SliderWords :
          /\ call' = [call EXCEPT ![c] =
                        [prog |-> "app", n |-> 1, art |-> Some(art),
                         force |-> force, maxlen |-> WordsToTokens(words)]]
          /\ Goto(c, GatewayEntry(force))
    /\ trace' = [trace EXCEPT ![c] = << >>]
    /\ UNCHANGED <<store, nextId, clock, handle, res, ret, result1, sent>>

\* cache_demo.py: the first request of demo_cache_performance.
DemoCall(c) ==
    /\ pc[c] = "idle"
    /\ \E art \in GatewayArticles :
          call' = [call EXCEPT ![c] =
                     [prog |-> "demo", n |-> 1, art |-> Some(art),
                      force |-> FALSE, maxlen |-> DemoMaxLength]]
    /\ Goto(c, GatewayEntry(FALSE))
    /\ trace' = [trace EXCEPT ![c] = << >>]
    /\ UNCHANGED <<store, nextId, clock, handle, res, ret, result1, sent>>

\* The gateway's lookup: get_cached_article(article['url']).
Lookup(c) ==
    /\ pc[c] = "lookup"
    /\ \E dbError \in BOOLEAN :
          LET cached == GetCachedArticle(store, Art(c)["url"], dbError)
          IN  IF IsSome(cached)
              THEN /\ ret' = [ret EXCEPT ![c] = cached]
                   /\ Goto(c, "return")
                   /\ Log(c, "hit")
              ELSE /\ ret' = ret
                   /\ Goto(c, "process")
                   /\ Log(c, IF dbError THEN "lookup_error" ELSE "miss")
    /\ UNCHANGED <<store, nextId, clock, handle, call, res, result1, sent>>

(***************************************************************************)
(* process_article, stage by stage.                                        *)
(***************************************************************************)
\* The prints of the header index title and url: a None there raises.
HeaderRaises(result) == IsNone(result.title) \/ IsNone(result.url)

\* Input validation, the initial result, and step 1 (detection).
Detect(c) ==
    /\ pc[c] = "process"
    /\ IF ~Has(Art(c), "text")
       THEN /\ res' = [res EXCEPT ![c] = NoDict]
            /\ Goto(c, "processed")
            /\ Log(c, "invalid")
       ELSE LET result == InitialResult(Art(c))
                language == DetectLanguage(Art(c)["text"])
            IN  IF HeaderRaises(result)
                THEN /\ res' = [res EXCEPT ![c] = NoDict]
                     /\ Goto(c, "raised")
                     /\ Log(c, "raise")
                ELSE IF IsNone(language)
                THEN /\ res' = [res EXCEPT ![c] = NoDict]
                     /\ Goto(c, "processed")
                     /\ Log(c, "detect")
                ELSE /\ res' = [res EXCEPT ![c] =
                                  Some([result EXCEPT !.original_language = language])]
                     /\ Goto(c, "translate")
                     /\ Log(c, "detect")
    /\ UNCHANGED <<store, nextId, clock, handle, call, ret, result1, sent>>

\* The first-use test left out: the model is constructed on every call.
HandleIsNoneAlways(loaded) == TRUE

\* "if _translator_ar is None", "if _translator_fr is None", "if _summarizer
\* is None": the handle has not been constructed.
HandleIsNone(loaded) == ~loaded

\* translate_to_english without its two early returns.
TranslatePassThroughOff(source_language) == FALSE

\* translate_to_english without its "not in ['ar', 'fr']" test.
TranslatePassThroughEnglishOnly(source_language) == source_language = "en"

\* translate_to_english's early returns: English, or an unsupported source.
TranslatePassThrough(source_language) ==
    source_language = "en" \/ source_language \notin {"ar", "fr"}

\* Where translate_to_english returns to: process_article's step 3, or the
\* caller of a direct call.
AfterTranslate(c) ==
    IF call[c].prog = "translate_to_english" THEN "processed" ELSE "summarize"

\* Step 2: English text is taken as is; otherwise translate_to_english, up
\* to its check of the handle.  In a direct call of translate_to_english
\* only the function's own tests apply.  Past the early returns, a source
\* that is neither 'ar' nor 'fr' matches no branch of the try block and the
\* function ends without a return statement: None.
Translate(c) ==
    /\ pc[c] = "translate"
    /\ LET language == CodeOf(The(res[c]).original_language)
           text == The(res[c]).original_text
       IN  IF \/ call[c].prog # "translate_to_english" /\ language = "en"
              \/ TranslatePassThrough(language)
           THEN /\ SetRes(c, "english_text", text)
                /\ Goto(c, AfterTranslate(c))
                /\ trace' = trace
           ELSE IF language \in {"ar", "fr"}
           THEN /\ res' = res
                /\ Goto(c, IF HandleIsNone(handle[language]) THEN "tr_load" ELSE "tr_call")
                /\ Log(c, "translate")
           ELSE /\ SetRes(c, "english_text", PyNone)
                /\ Goto(c, AfterTranslate(c))
                /\ trace' = trace
    /\ UNCHANGED <<store, nextId, clock, handle, call, ret, result1, sent>>

\* The calls the chunk loop gets to make: all of them, or those up to and
\* including the one that raises.
CallsMade(ins, failAt) ==
    SubSeq(ins, 1, IF failAt \in 1..Len(ins) THEN failAt ELSE Len(ins))

\* One invocation of a model: which model, on what, with what budgets.
\* _translator_xx(chunk, max_length=512);
\* _summarizer(text, max_length=max_length, min_length=min_length, ...)
Invocation(model, text, max_length, min_length) ==
    [model |-> model, text |-> text, max_length |-> max_length,
     min_length |-> min_length]

Invoke(c, invocations) == sent' = [sent EXCEPT ![c] = @ \o invocations]

\* pipeline("translation", model=...): the handle is set, or the load raises
\* and translate_to_english returns the original text.
TranslatorLoad(c) ==
    /\ pc[c] = "tr_load"
    /\ LET language == CodeOf(The(res[c]).original_language)
           text == The(res[c]).original_text
       IN  \E ok \in BOOLEAN :
              IF ok
              THEN /\ handle' = [handle EXCEPT ![language] = TRUE]
                   /\ res' = res
                   /\ Goto(c, "tr_call")
                   /\ Log(c, "load_" \o language)
              ELSE LET back == TranslateGuard(StrOf(text), [exc |-> TRUE, val |-> << >>])
                   IN  /\ handle' = handle
                       /\ SetRes(c, "english_text", PyStr(back.val))
                       /\ Goto(c, IF back.exc THEN "raised" ELSE AfterTranslate(c))
                       /\ Log(c, "load_failed")
    /\ UNCHANGED <<store, nextId, clock, call, ret, result1, sent>>

\* The translator calls, chunk by chunk, and the join.
TranslatorCall(c) ==
    /\ pc[c] = "tr_call"
    /\ LET language == CodeOf(The(res[c]).original_language)
           text == StrOf(The(res[c]).original_text)
       IN  \E failAt \in 0..Len(TranslatorInputs(text)) :
              LET out == TranslateGuard(text, TranslateCalls(text, language, failAt))
              IN  /\ SetRes(c, "english_text", PyStr(out.val))
                  /\ Goto(c, IF out.exc THEN "raised" ELSE AfterTranslate(c))
                  /\ Log(c, IF failAt = 0 THEN "translated" ELSE "translate_failed")
                  /\ LET made == CallsMade(TranslatorInputs(text), failAt)
                     IN  Invoke(c, [k \in 1..Len(made) |->
                                      Invocation(language, made[k], 512, 0)])
    /\ UNCHANGED <<store, nextId, clock, handle, call, ret, result1>>

\* summarize_text without its "len(text) < 200" test.
BelowSummarizeFloorOff(text) == FALSE

\* summarize_text's floor: text under 200 characters is returned as is.
BelowSummarizeFloor(text) == StrLen(text) < MinSummarizeLen

\* Step 3 handing summarize_text the article's own text instead of
\* english_text.
SummarizeArgumentOriginal(result) == result.original_text

\* The text summarize_text is called on: english_text, as step 2 left it.
SummarizeArgument(result) == result.english_text

\* Where summarize_text returns to: process_article, or the caller of a
\* direct call.
AfterSummarize(c) ==
    IF call[c].prog = "summarize_text" THEN "processed" ELSE "complete"

\* Step 3: summarize_text(english_text, max_length=summary_max_length), up to
\* its check of the handle.
Summarize(c) ==
    /\ pc[c] = "summarize"
    /\ LET text == SummarizeArgument(The(res[c]))
       IN  IF BelowSummarizeFloor(StrOf(text))
           THEN /\ SetRes(c, "summary", text)
                /\ Goto(c, AfterSummarize(c))
                /\ Log(c, "too_short")
           ELSE /\ res' = res
                /\ Goto(c, IF HandleIsNone(handle.sum) THEN "sum_load" ELSE "sum_call")
                /\ Log(c, "summarize")
    /\ UNCHANGED <<store, nextId, clock, handle, call, ret, result1, sent>>

\* pipeline("summarization", ...): the handle is set, or the load raises and
\* summarize_text returns the text (not yet truncated).
SummarizerLoad(c) ==
    /\ pc[c] = "sum_load"
    /\ LET text == StrOf(SummarizeArgument(The(res[c])))
       IN  \E ok \in BOOLEAN :
              IF ok
              THEN /\ handle' = [handle EXCEPT !.sum = TRUE]
                   /\ res' = res
                   /\ Goto(c, "sum_call")
                   /\ Log(c, "load_sum")
              ELSE LET back == SummarizeGuard(text, [exc |-> TRUE, val |-> << >>])
                   IN  /\ handle' = handle
                       /\ SetRes(c, "summary", PyStr(back.val))
                       /\ Goto(c, IF back.exc THEN "raised" ELSE AfterSummarize(c))
                       /\ Log(c, "load_failed")
    /\ UNCHANGED <<store, nextId, clock, call, ret, result1, sent>>

\* The truncation and the summarizer call.
SummarizerCall(c) ==
    /\ pc[c] = "sum_call"
    /\ LET text == SummarizerInput(StrOf(SummarizeArgument(The(res[c]))))
       IN  \E ok \in BOOLEAN :
              LET out == SummarizeGuard(text,
                            SummarizeCall(text, call[c].maxlen, DefaultMinLength, ok))
              IN  /\ SetRes(c, "summary", PyStr(out.val))
                  /\ Goto(c, IF out.exc THEN "raised" ELSE AfterSummarize(c))
                  /\ Log(c, IF ok THEN "summarized" ELSE "summarize_failed")
                  /\ Invoke(c, << Invocation("sum", text, call[c].maxlen,
                                             DefaultMinLength) >>)
    /\ UNCHANGED <<store, nextId, clock, handle, call, ret, result1>>

\* The processing time, and the return of the result.
Complete(c) ==
    /\ pc[c] = "complete"
    /\ \E ms \in ElapsedMs : SetRes(c, "processing_time", FormatElapsed(ms))
    /\ Goto(c, "processed")
    /\ UNCHANGED <<store, nextId, clock, handle, call, ret, result1, trace, sent>>

(***************************************************************************)
(* Writes to the table.                                                    *)
(***************************************************************************)
\* One save_article call on the live table; a successful insert takes the
\* next id and is stamped with the current second.
DoSave(article_data, dbError) ==
    LET r == SaveArticle(store, article_data, nextId, clock, dbError)
    IN  /\ r.ok => nextId <= MaxId
        /\ store' = r.table
        /\ nextId' = IF r.ok THEN nextId + 1 ELSE nextId
        /\ clock' = clock

SaveOutcome(article_data, dbError) ==
    SaveArticle(store, article_data, nextId, clock, dbError)

\* The gateway after process_article returned: save the record if there is
\* one, and return it.
Save(c) ==
    /\ pc[c] = "processed"
    /\ call[c].prog \in {"app", "demo", "refresh"}
    /\ IF GatewaySaves(res[c])
       THEN \E dbError \in BOOLEAN :
               LET saved == SaveOutcome(The(res[c]), dbError)
               IN  /\ DoSave(The(res[c]), dbError)
                   /\ Log(c, saved.why)
                   /\ ret' = [ret EXCEPT ![c] = IF saved.exc THEN NoDict ELSE res[c]]
                   /\ Goto(c, IF saved.exc THEN "raised" ELSE "return")
       ELSE /\ UNCHANGED <<store, nextId, clock>>
            /\ Log(c, "nothing_to_save")
            /\ ret' = [ret EXCEPT ![c] = res[c]]
            /\ Goto(c, "return")
    /\ UNCHANGED <<handle, call, res, result1, sent>>

\* The caller gets the result (or the exception).  app.py shows it;
\* cache_demo.py keeps result1 and, unless it is None, asks again; the app's
\* user who asked with "Force refresh" ticked asks again with it unticked.
Return(c) ==
    /\ pc[c] \in {"return", "raised"}
    /\ IF \/ call[c].prog = "demo" /\ call[c].n = 1 /\ pc[c] = "return" /\ IsSome(ret[c])
          \/ call[c].prog = "refresh" /\ call[c].n = 1
       THEN /\ result1' = [result1 EXCEPT ![c] = ret[c]]
            /\ call' = [call EXCEPT ![c].n = 2, ![c].force = FALSE]
            /\ Goto(c, GatewayEntry(FALSE))
            /\ Log(c, "again")
       ELSE /\ result1' = [result1 EXCEPT ![c] = NoDict]
            /\ call' = [call EXCEPT ![c] = NoCall]
            /\ Goto(c, "idle")
            /\ trace' = [trace EXCEPT ![c] = << >>]
    /\ res' = [res EXCEPT ![c] = NoDict]
    /\ ret' = [ret EXCEPT ![c] = NoDict]
    /\ sent' = [sent EXCEPT ![c] = << >>]
    /\ UNCHANGED <<store, nextId, clock, handle>>

\* save_article called directly.
SaveDirect ==
    /\ \E rec \in DirectRecords, dbError \in BOOLEAN :
          DoSave(rec, dbError)
    /\ UNCHANGED <<handle, pc, call, res, ret, result1, trace, sent>>

\* clear_cache()
ClearCache ==
    /\ \E dbError \in BOOLEAN : store' = ClearCacheResult(store, dbError).table
    /\ UNCHANGED <<nextId, clock, handle, pc, call, res, ret, result1, trace, sent>>

\* pipeline.test_pipeline: process_article(article, summary_max_length=100),
\* called directly.
PipelineCall(c) ==
    /\ pc[c] = "idle"
    /\ \E art \in RawArticles :
          call' = [call EXCEPT ![c] =
                     [prog |-> "test_pipeline", n |-> 1, art |-> Some(art),
                      force |-> FALSE, maxlen |-> DemoMaxLength]]
    /\ Goto(c, "process")
    /\ trace' = [trace EXCEPT ![c] = << >>]
    /\ UNCHANGED <<store, nextId, clock, handle, res, ret, result1, sent>>

\* process_article's result reaches test_pipeline.
PipelineResult(c) ==
    /\ pc[c] = "processed"
    /\ call[c].prog = "test_pipeline"
    /\ ret' = [ret EXCEPT ![c] = res[c]]
    /\ Goto(c, "return")
    /\ UNCHANGED <<store, nextId, clock, handle, call, res, result1, trace, sent>>

\* The stages of process_article.
Stage(c) ==
    \/ Detect(c)
    \/ Translate(c)
    \/ TranslatorLoad(c)
    \/ TranslatorCall(c)
    \/ Summarize(c)
    \/ SummarizerLoad(c)
    \/ SummarizerCall(c)
    \/ Complete(c)

\* The app's requests, and direct use of the table beside them.
Next ==
    \/ \E c \in Callers :
          \/ AppCall(c)
          \/ Lookup(c)
          \/ Stage(c)
          \/ Save(c)
          \/ Return(c)
    \/ SaveDirect
    \/ ClearCache

Spec == Init /\ [][Next]_vars

\* cache_demo.demo_cache_performance on its own: each article is requested
\* twice in a row, and nothing else touches the table.
NextDemo ==
    \E c \in Callers :
       \/ DemoCall(c)
       \/ Lookup(c)
       \/ Stage(c)
       \/ Save(c)
       \/ Return(c)

SpecDemo == Init /\ [][NextDemo]_vars

\* process_article called directly, as test_pipeline does.
NextPipeline ==
    \E c \in Callers :
       \/ PipelineCall(c)
       \/ Stage(c)
       \/ PipelineResult(c)
       \/ Return(c)

SpecPipeline == Init /\ [][NextPipeline]_vars

\* Texts and source languages of direct calls of the pipeline's functions:
\* prefixes of one scraped body, at and around the 500-character chunk size,
\* the 200-character floor and the 4000-character cut of summarize_text, and
\* one text put together from two bodies.
UnitLengths == {0, 1, 199, 200, 499, 500, 501, 1000, 1001, 4000, 4001, 4100}
UnitTexts ==
    {Slice(Body("s_en"), 0, n) : n \in UnitLengths}
       \cup {Cat(Body("s_ar"), Body("s_fr"))}
UnitLanguages == {"en", "ar", "fr", "de", "es"}

\* A direct call translate_to_english(text, source_language).  The frame of
\* the call is kept in res: the arguments in original_text and
\* original_language, the return value in english_text.
TranslateUnitCall(c) ==
    /\ pc[c] = "idle"
    /\ \E text \in UnitTexts, lang \in UnitLanguages :
          LET args == [text |-> PyStr(text)]
          IN  /\ call' = [call EXCEPT ![c] =
                            [prog |-> "translate_to_english", n |-> 1,
                             art |-> Some(args), force |-> FALSE, maxlen |-> 0]]
              /\ res' = [res EXCEPT ![c] =
                           Some([InitialResult(args) EXCEPT
                                    !.original_language = LangCode(lang)])]
    /\ Goto(c, "translate")
    /\ trace' = [trace EXCEPT ![c] = << >>]
    /\ UNCHANGED <<store, nextId, clock, handle, ret, result1, sent>>

\* max_length of direct calls of summarize_text: the default, and app.py's
\* words_to_tokens(30).
UnitMaxLengths == {150, WordsToTokens(30)}

\* A direct call summarize_text(text, max_length); min_length is left at
\* its default.  The argument is kept in english_text, the return value in
\* summary.
SummarizeUnitCall(c) ==
    /\ pc[c] = "idle"
    /\ \E text \in UnitTexts, max_length \in UnitMaxLengths :
          LET args == [text |-> PyStr(text)]
          IN  /\ call' = [call EXCEPT ![c] =
                            [prog |-> "summarize_text", n |-> 1,
                             art |-> Some(args), force |-> FALSE,
                             maxlen |-> max_length]]
              /\ res' = [res EXCEPT ![c] =
                           Some([InitialResult(args) EXCEPT
                                    !.english_text = PyStr(text)])]
    /\ Goto(c, "summarize")
    /\ trace' = [trace EXCEPT ![c] = << >>]
    /\ UNCHANGED <<store, nextId, clock, handle, ret, result1, sent>>

\* Arguments of direct calls of detect_language: None, and prefixes of every
\* scraped body below, at and above the 10-character floor and the
\* 500-character sample.
DetectLengths == {0, 5, 9, 10, 40, 500, 501}
DetectTexts ==
    {PyNone} \cup
    UNION {{PyStr(Slice(Body(src), 0, n)) :
               n \in {m \in DetectLengths : m <= SrcLen(src)}} :
           src \in Sources}

\* A direct call detect_language(text).  The argument is kept in
\* original_text, the return value in original_language.
DetectUnitCall(c) ==
    /\ pc[c] = "idle"
    /\ \E text \in DetectTexts :
          LET args == [text |-> text]
          IN  /\ call' = [call EXCEPT ![c] =
                            [prog |-> "detect_language", n |-> 1,
                             art |-> Some(args), force |-> FALSE, maxlen |-> 0]]
              /\ res' = [res EXCEPT ![c] = Some(InitialResult(args))]
    /\ Goto(c, "detect")
    /\ trace' = [trace EXCEPT ![c] = << >>]
    /\ UNCHANGED <<store, nextId, clock, handle, ret, result1, sent>>

\* The body of detect_language on the argument of a direct call.
DetectUnit(c) ==
    /\ pc[c] = "detect"
    /\ SetRes(c, "original_language", DetectLanguage(Art(c)["text"]))
    /\ Goto(c, "processed")
    /\ Log(c, "detect")
    /\ UNCHANGED <<store, nextId, clock, handle, call, ret, result1, sent>>

\* The function called directly returns to its caller.
UnitResult(c) ==
    /\ pc[c] = "processed"
    /\ call[c].prog \in {"translate_to_english", "summarize_text", "detect_language"}
    /\ ret' = [ret EXCEPT ![c] = res[c]]
    /\ Goto(c, "return")
    /\ UNCHANGED <<store, nextId, clock, handle, call, res, result1, trace, sent>>

\* The pipeline's functions called one at a time, beside process_article.
NextUnits ==
    \E c \in Callers :
       \/ PipelineCall(c)
       \/ TranslateUnitCall(c)
       \/ SummarizeUnitCall(c)
       \/ DetectUnitCall(c)
       \/ DetectUnit(c)
       \/ Stage(c)
       \/ PipelineResult(c)
       \/ UnitResult(c)
       \/ Return(c)

SpecUnits == Init /\ [][NextUnits]_vars

\* The articles of two overlapping requests: one url, scraped twice.
RaceArticles ==
    { Article(Url1, "s_en"), [url |-> Url1, text |-> PyStr(Body("s_fr"))] }

\* app.py in two sessions: each presses Summarize once, for the same url.
RaceCall(c) ==
    /\ pc[c] = "idle"
    /\ \E art \in RaceArticles, force \in BOOLEAN, words \in SliderWords :
          /\ call' = [call EXCEPT ![c] =
                        [prog |-> "app", n |-> 1, art |-> Some(art),
                         force |-> force, maxlen |-> WordsToTokens(words)]]
          /\ Goto(c, GatewayEntry(force))
    /\ trace' = [trace EXCEPT ![c] = << >>]
    /\ UNCHANGED <<store, nextId, clock, handle, res, ret, result1, sent>>

\* Two overlapping requests on an empty table; each session stays at its
\* result.
NextRace ==
    \E c \in Sessions :
       \/ RaceCall(c)
       \/ Lookup(c)
       \/ Stage(c)
       \/ Save(c)

SpecRace == Init /\ [][NextRace]_vars

\* The limits get_all_articles is called with: None (db.py 398,
\* cache_demo.py 264), 5 (cache_demo.py 219), and 0, 1, 2.
ListLimits == {NoDict} \cup {Some(n) : n \in {0, 1, 2, 5}}

\* A second passes.
Tick ==
    /\ clock < MaxClock
    /\ clock' = clock + 1
    /\ UNCHANGED <<store, nextId, handle, pc, call, res, ret, result1, trace, sent>>

\* A call get_all_articles(limit); the argument is kept in the call's frame.
ListCall(c) ==
    /\ pc[c] = "idle"
    /\ \E limit \in ListLimits :
          call' = [call EXCEPT ![c] =
                     [prog |-> "get_all_articles", n |-> 1,
                      art |-> Some([limit |-> limit]), force |-> FALSE,
                      maxlen |-> 0]]
    /\ Goto(c, "listing")
    /\ trace' = [trace EXCEPT ![c] = << >>]
    /\ UNCHANGED <<store, nextId, clock, handle, res, ret, result1, sent>>

\* The SELECT of get_all_articles and the list built from its rows, which
\* the caller gets.
List(c) ==
    /\ pc[c] = "listing"
    /\ \E dbError \in BOOLEAN :
          /\ \E articles \in GetAllArticles(store, Art(c).limit, dbError) :
                ret' = [ret EXCEPT ![c] = Some(articles)]
          /\ Log(c, IF dbError THEN "error" ELSE "listed")
    /\ Goto(c, "return")
    /\ UNCHANGED <<store, nextId, clock, handle, call, res, result1, sent>>

\* The table written by hand and listed, as db.test_database and
\* cache_demo.demo_cache_management do, over some seconds.
NextListing ==
    \/ \E c \in Callers :
          \/ ListCall(c)
          \/ List(c)
          \/ Return(c)
    \/ SaveDirect
    \/ ClearCache
    \/ Tick

SpecListing == Init /\ [][NextListing]_vars

\* Every position of the "Summary Length (words)" slider: min_value=30,
\* max_value=200, step=10.
SliderRange == {30 + 10 * k : k \in 0..17}

\* app.py: the Summarize button with the slider at any of its positions,
\* on an English and on a French article of one url.
BudgetCall(c) ==
    /\ pc[c] = "idle"
    /\ \E art \in RaceArticles, force \in BOOLEAN, words \in SliderRange :
          /\ call' = [call EXCEPT ![c] =
                        [prog |-> "app", n |-> 1, art |-> Some(art),
                         force |-> force, maxlen |-> WordsToTokens(words)]]
          /\ Goto(c, GatewayEntry(force))
    /\ trace' = [trace EXCEPT ![c] = << >>]
    /\ UNCHANGED <<store, nextId, clock, handle, res, ret, result1, sent>>

\* The app over the whole range of the slider, and process_article called
\* with the fixed budget of 100.
NextBudget ==
    \E c \in Callers :
       \/ BudgetCall(c)
       \/ PipelineCall(c)
       \/ Lookup(c)
       \/ Stage(c)
       \/ Save(c)
       \/ PipelineResult(c)
       \/ Return(c)

SpecBudget == Init /\ [][NextBudget]_vars

\* app.py: Summarize with "Force refresh" ticked, on an article whose url
\* already has a row; the same article is asked for again afterwards with
\* the box unticked.
RefreshCall(c) ==
    /\ pc[c] = "idle"
    /\ \E art \in GatewayArticles, words \in SliderWords :
          /\ RowsWithUrl(store, art["url"]) # {}
          /\ call' = [call EXCEPT ![c] =
                        [prog |-> "refresh", n |-> 1, art |-> Some(art),
                         force |-> TRUE, maxlen |-> WordsToTokens(words)]]
    /\ Goto(c, GatewayEntry(TRUE))
    /\ trace' = [trace EXCEPT ![c] = << >>]
    /\ UNCHANGED <<store, nextId, clock, handle, res, ret, result1, sent>>

\* Rows written by hand, then forced and unforced requests for their urls.
NextRefresh ==
    \/ \E c \in Callers :
          \/ RefreshCall(c)
          \/ Lookup(c)
          \/ Stage(c)
          \/ Save(c)
          \/ Return(c)
    \/ SaveDirect

SpecRefresh == Init /\ [][NextRefresh]_vars

\* A dict without one of its keys.
Without(d, key) == [k \in (DOMAIN d) \ {key} |-> d[k]]

\* Records for direct calls of save_article: complete ones for two urls,
\* and for each required field one that lacks the key, one with '' and one
\* with None there.
SaveRecords ==
    {ByHand(Url1, Title1), ByHand(Url2, Title1)}
       \cup UNION {{Without(ByHand(Url1, Title1), RequiredFields[i]),
                    [ByHand(Url1, Title1) EXCEPT ![RequiredFields[i]] = PyStr(<< >>)],
                    [ByHand(Url1, Title1) EXCEPT ![RequiredFields[i]] = PyNone]} :
                   i \in 1..Len(RequiredFields)}

\* A call save_article(article_data), as in db.test_database.
SaveUnitCall(c) ==
    /\ pc[c] = "idle"
    /\ \E rec \in SaveRecords :
          call' = [call EXCEPT ![c] =
                     [prog |-> "save_article", n |-> 1, art |-> Some(rec),
                      force |-> FALSE, maxlen |-> 0]]
    /\ Goto(c, "saving")
    /\ trace' = [trace EXCEPT ![c] = << >>]
    /\ UNCHANGED <<store, nextId, clock, handle, res, ret, result1, sent>>

\* The body of save_article on the argument of the call; the bool it
\* returns reaches the caller.
SaveUnit(c) ==
    /\ pc[c] = "saving"
    /\ \E dbError \in BOOLEAN :
          LET saved == SaveOutcome(Art(c), dbError)
          IN  /\ DoSave(Art(c), dbError)
              /\ Log(c, saved.why)
              /\ ret' = [ret EXCEPT ![c] = Some([ok |-> saved.ok])]
    /\ Goto(c, "return")
    /\ UNCHANGED <<handle, call, res, result1, sent>>

\* save_article called on complete and on incomplete records, the table
\* cleared now and then.
NextSave ==
    \/ \E c \in Callers :
          \/ SaveUnitCall(c)
          \/ SaveUnit(c)
          \/ Return(c)
    \/ ClearCache
    \/ Tick

SpecSave == Init /\ [][NextSave]_vars

TypeOK ==
    /\ nextId \in 1..(MaxId + 1)
    /\ clock \in 0..MaxClock
    /\ \A c \in Callers : pc[c] \in {"idle", "lookup", "process", "translate",
          "tr_load", "tr_call", "summarize", "sum_load", "sum_call", "complete",
          "processed", "return", "raised", "detect", "listing", "saving"}

(***************************************************************************)
(* Properties.                                                             *)
(***************************************************************************)
\* The content fields of a ProcessedArticle (id and date_processed are the
\* store's own).
ContentFields ==
    {"url", "source", "title", "date", "original_language", "original_text",
     "english_text", "summary", "processing_time"}

\* The column a content field is kept in.
ColumnOf(field) == IF field = "date" THEN "date_published" ELSE field

SameContent(a, b) ==
    \A f \in ContentFields : Has(a, f) /\ Has(b, f) /\ a[f] = b[f]

RowHolds(row, article) ==
    \A f \in ContentFields : Has(article, f) /\ row[ColumnOf(f)] = article[f]

Last(seq) == seq[Len(seq)]
LastStep(c) == IF trace[c] = << >> THEN "" ELSE Last(trace[c])

\* Rows of the caller's url, now and after the step.
UrlRows(c) == RowsWithUrl(store, Art(c)["url"])
UrlRowsAfter(c) == RowsWithUrl(store', Art(c)["url"])

\* The caller's lookup, and the gateway's handling of process_article's
\* result, as steps.
LookupEnds(c) == pc[c] = "lookup" /\ pc'[c] # "lookup"
SaveEnds(c) == pc[c] = "processed" /\ pc'[c] # "processed" /\ call[c].prog = "app"

\* The step hands the caller the stored article of its url and nothing of
\* process_article has run: no result, no handle, no write.
ServedFromStore(c) ==
    /\ pc'[c] = "return"
    /\ IsSome(ret'[c])
    /\ \E i \in UrlRows(c) : RowHolds(store[i], The(ret'[c]))
    /\ res'[c] = NoDict
    /\ handle' = handle
    /\ store' = store
    /\ trace'[c] = <<"hit">>

C2_OneRowPerUrl ==
    \A i, j \in 1..Len(store) : store[i].url = store[j].url => i = j

C2_Witness ==
    /\ Len(store) = 2
    /\ \E c \in Callers :
          pc[c] = "return" /\ call[c].force /\ LastStep(c) = "duplicate"

\* A forced call starts with process_article, not with the lookup.
RanPipeline(c) == trace[c] # << >> /\ trace[c][1] \in {"invalid", "detect"}

\* C3, as stated: a forced gateway call always runs process_article without
\* a lookup, and after the call the table holds exactly one row of the url.
C3_ForceRefreshOneRowAlways ==
    [][\A c \in Callers :
          /\ call'[c].force => pc'[c] # "lookup"
          /\ (call[c].force /\ SaveEnds(c))
                => (RanPipeline(c) /\ Cardinality(UrlRowsAfter(c)) = 1)]_vars

\* C3, amended: a forced gateway call always runs process_article without a
\* lookup; after the call the table holds at most one row of the url, and
\* exactly one when save_article inserted the record or refused it as a
\* duplicate.  When process_article aborts, or the write fails otherwise,
\* the call adds no row.
C3_ForceRefresh ==
    [][\A c \in Callers :
          /\ call'[c].force => pc'[c] # "lookup"
          /\ (call[c].force /\ SaveEnds(c))
                => /\ RanPipeline(c)
                   /\ Cardinality(UrlRowsAfter(c)) <= 1
                   /\ Last(trace'[c]) \in {"saved", "duplicate"}
                         => Cardinality(UrlRowsAfter(c)) = 1
                   /\ Last(trace'[c]) \notin {"saved", "duplicate"}
                         => UrlRowsAfter(c) = UrlRows(c)]_vars

C3_Witness ==
    \E c \in Callers :
       /\ pc[c] = "return" /\ call[c].force
       /\ LastStep(c) = "duplicate"
       /\ Cardinality(UrlRows(c)) = 1
       /\ "summarized" \in {trace[c][i] : i \in 1..Len(trace[c])}

\* C4: when process_article produced a record and save_article returned
\* False (duplicate url, database error, failed validation), the gateway
\* returns that record and raises nothing.
C4_WriteFailureKeepsResult ==
    \A c \in Callers :
       (pc[c] \in {"return", "raised"}
          /\ LastStep(c) \in {"duplicate", "error", "invalid"})
          => (pc[c] = "return" /\ IsSome(res[c]) /\ ret[c] = res[c])

C4_Witness ==
    \E c \in Callers :
       /\ pc[c] = "return" /\ LastStep(c) = "error"
       /\ IsSome(ret[c]) /\ ret[c] = res[c]
       /\ Has(The(ret[c]), "processing_time")

\* cache_demo's second request has returned.
SecondReturned(c) == pc[c] = "return" /\ call[c].prog = "demo" /\ call[c].n = 2

\* The first request's record is the one in the table: it was read from
\* there, or save_article inserted it.
FirstIsStored(c) ==
    \E k \in 2..Len(trace[c]) :
       trace[c][k] = "again" /\ trace[c][k - 1] \in {"hit", "saved"}

MissReachesSave(c) ==
    /\ ~call[c].force
    /\ SaveEnds(c)
    /\ IsSome(res[c])
    /\ trace[c][1] = "miss"
    /\ UrlRows(c) = {}

\* C6, as stated: after a non-forced call that found no row and computed a
\* record (no other writer in between), the table holds a row of the url
\* whose content fields equal the returned record.
C6_MissPopulatesAlways ==
    [][\A c \in Callers :
          MissReachesSave(c)
             => \E i \in UrlRowsAfter(c) : RowHolds(store'[i], The(ret'[c]))]_vars

\* C6, amended: after a non-forced call that found no row and computed a
\* record (no other writer in between), the table holds exactly one row of
\* the url, with content fields equal to the returned record, provided the
\* write does not fail; when the database raises on the INSERT, save_article
\* returns False, no row is written, and the next call is a miss again.
C6_MissPopulates ==
    [][\A c \in Callers :
          MissReachesSave(c)
             => IF Last(trace'[c]) = "error"
                THEN UrlRowsAfter(c) = {} /\ ret'[c] = res[c]
                ELSE /\ Cardinality(UrlRowsAfter(c)) = 1
                     /\ \E i \in UrlRowsAfter(c) : RowHolds(store'[i], The(ret'[c]))
                     /\ ret'[c] = res[c]]_vars

C6_Witness ==
    \E c \in Callers :
       /\ pc[c] = "return" /\ ~call[c].force
       /\ trace[c][1] = "miss" /\ LastStep(c) = "saved"
       /\ \E i \in UrlRows(c) : RowHolds(store[i], The(ret[c]))
       /\ The(ret[c]).summary # The(ret[c]).english_text

\* C7: a row, once written, stays as it is through every save_article and
\* every gateway call, forced or not; only clear_cache removes rows.
C7_RowsNeverMutated ==
    [][\/ \A i \in 1..Len(store) : i <= Len(store') /\ store'[i] = store[i]
       \/ ClearCache]_vars

C7_Witness ==
    \E c \in Callers :
       /\ pc[c] = "return" /\ call[c].force /\ LastStep(c) = "duplicate"
       /\ \E i \in UrlRows(c) : ~RowHolds(store[i], The(ret[c]))

TraceHas(c, what) == \E i \in 1..Len(trace[c]) : trace[c][i] = what

\* process_article is past its first step, in a direct call.
PipelineRunning(c) ==
    call[c].prog = "test_pipeline" /\ pc[c] \notin {"idle", "process"}

\* C8: for an article with a text field on which detect_language returns a
\* supported code, process_article returns a complete record, never None
\* and never an exception, whichever of the translator's and summarizer's
\* loads and calls fail.
C8_OnlyDetectAborts ==
    \A c \in Callers :
       (PipelineRunning(c) /\ Has(Art(c), "text")
          /\ ~IsNone(DetectLanguage(Art(c)["text"])))
          => /\ pc[c] # "raised"
             /\ IsSome(res[c])
             /\ CodeOf(The(res[c]).original_language) \in SUPPORTED_LANGUAGES
             /\ pc[c] = "return"
                   => /\ ret[c] = res[c]
                      /\ ~IsNone(The(ret[c]).english_text)
                      /\ ~IsNone(The(ret[c]).summary)
                      /\ ~IsNone(The(ret[c]).processing_time)

C8_Witness ==
    \E c \in Callers :
       /\ call[c].prog = "test_pipeline" /\ pc[c] = "return"
       /\ TraceHas(c, "translate_failed") /\ TraceHas(c, "summarize_failed")
       /\ IsSome(ret[c])
       /\ The(ret[c]).summary = The(ret[c]).original_text

\* The article's text is None, empty, or shorter than 10 characters.
ShortText(article_data) ==
    /\ Has(article_data, "text")
    /\ \/ IsNone(article_data["text"])
       \/ StrLen(StrOf(article_data["text"])) < MinDetectLen

\* C9: on an article whose text is empty or shorter than 10 characters,
\* detect_language returns None and process_article returns None; it never
\* reaches translate_to_english or summarize_text, and no handle is loaded.
C9_LanguageGating ==
    \A c \in Callers :
       (PipelineRunning(c) /\ ShortText(Art(c)))
          => /\ DetectLanguage(Art(c)["text"]) = PyNone
             /\ pc[c] \in {"processed", "return"}
             /\ res[c] = NoDict
             /\ ret[c] = NoDict
             /\ trace[c] = <<"detect">>

C9_Witness ==
    \E c \in Callers :
       /\ call[c].prog = "test_pipeline" /\ pc[c] = "return"
       /\ ShortText(Art(c)) /\ Truthy(Art(c)["text"])
       /\ ret[c] = NoDict
       /\ handle.sum

\* Inputs on which the pipeline aborts: no text field, text empty or under
\* 10 characters, the classifier raising, or a language outside ar, en, fr.
AbortsOn(article_data) ==
    \/ ~Has(article_data, "text")
    \/ ShortText(article_data)
    \/ LET detected == Classifier(Slice(StrOf(article_data["text"]), 0, DetectSample))
       IN  detected.raised \/ detected.code \notin {"ar", "en", "fr"}

\* C10: when the pipeline aborts, the caller receives None, not a partly
\* filled record, and the call leaves the table as it was.
C10_AbortNotCached ==
    [][\A c \in Callers :
          (pc[c] \in {"process", "processed"} /\ pc'[c] # pc[c]
             /\ call[c].prog = "app" /\ AbortsOn(Art(c)))
             => /\ store' = store
                /\ res'[c] = NoDict
                /\ pc'[c] \in {"processed", "return"}
                /\ pc'[c] = "return" => ret'[c] = NoDict]_vars

C10_Witness ==
    \E c \in Callers :
       /\ pc[c] = "return" /\ call[c].prog = "app"
       /\ AbortsOn(Art(c)) /\ ~ShortText(Art(c)) /\ Has(Art(c), "text")
       /\ trace[c] = <<"miss", "detect", "nothing_to_save">>
       /\ ret[c] = NoDict
       /\ UrlRows(c) = {} /\ Len(store) = 1

\* Both sessions have their answer (or an exception).
BothReturned == \A c \in Sessions : pc[c] \in {"return", "raised"}

RowsOfUrl1 == Cardinality(RowsWithUrl(store, Url1))

\* C11, as stated: two overlapping gateway calls for one url that has no
\* row both return a record, neither gets an error, and the table ends
\* with exactly one row of the url.
C11_RaceOneRowAlways ==
    BothReturned
       => /\ \A c \in Sessions : pc[c] = "return" /\ IsSome(ret[c])
          /\ RowsOfUrl1 = 1

\* C11, amended: two overlapping gateway calls for one url that has no row
\* both return a record and neither gets an error; the table ends with at
\* most one row of the url: exactly one when some call's save_article
\* inserted its record, none when every INSERT failed on a database error.
C11_RaceOneRow ==
    BothReturned
       => /\ \A c \in Sessions : pc[c] = "return" /\ IsSome(ret[c])
          /\ RowsOfUrl1 = IF \E c \in Sessions : TraceHas(c, "saved") THEN 1 ELSE 0
          /\ (\E c \in Sessions : LastStep(c) \in {"duplicate", "hit"})
                => \E d \in Sessions : TraceHas(d, "saved")

C11_Witness ==
    /\ BothReturned
    /\ \A c \in Sessions : trace[c][1] = "miss" /\ TraceHas(c, "summarized")
    /\ LastStep("c1") = "duplicate" /\ LastStep("c2") = "saved"
    /\ RowsOfUrl1 = 1
    /\ \E i \in RowsWithUrl(store, Url1) :
          RowHolds(store[i], The(ret["c2"])) /\ ~RowHolds(store[i], The(ret["c1"]))

\* The caller's translation step: process_article's step 2 or a direct
\* call of translate_to_english, from its entry to its return.
SourceLanguage(c) == CodeOf(The(res[c]).original_language)
TranslateEntered(c) == pc[c] = "translate" /\ pc'[c] # "translate"

\* C12: translate_to_english(text, 'en') returns text itself and loads no
\* handle; process_article on an article detected as English sets
\* english_text to the original text and calls no translator.
C12_EnglishPassThrough ==
    [][\A c \in Callers :
          (TranslateEntered(c) /\ SourceLanguage(c) = "en")
             => /\ pc'[c] = AfterTranslate(c)
                /\ The(res'[c]).english_text = The(res[c]).original_text
                /\ The(res'[c]).original_text = The(res[c]).original_text
                /\ handle' = handle
                /\ trace' = trace]_vars

C12_Witness ==
    \E c \in Callers :
       /\ pc[c] = "return" /\ call[c].prog = "translate_to_english"
       /\ SourceLanguage(c) = "en"
       /\ The(ret[c]).english_text = The(ret[c]).original_text
       /\ StrLen(StrOf(The(ret[c]).english_text)) = 1001
       /\ handle.ar /\ ~handle.fr

\* C13: for a source language outside en, ar, fr, translate_to_english
\* returns text itself, raises nothing, and neither loads nor calls a
\* translator.
C13_UnsupportedPassThrough ==
    [][\A c \in Callers :
          (TranslateEntered(c) /\ call[c].prog = "translate_to_english"
             /\ SourceLanguage(c) \notin {"en", "ar", "fr"})
             => /\ pc'[c] = "processed"
                /\ The(res'[c]).english_text = The(res[c]).original_text
                /\ handle' = handle
                /\ trace' = trace]_vars

C13_Witness ==
    \E c \in Callers :
       /\ pc[c] = "return" /\ call[c].prog = "translate_to_english"
       /\ SourceLanguage(c) = "de"
       /\ The(ret[c]).english_text = The(ret[c]).original_text
       /\ StrLen(StrOf(The(ret[c]).english_text)) = 501
       /\ handle.fr /\ ~handle.ar
       /\ trace[c] = << >>

\* The step is a translator load or call that raised.
TranslationFailed(c) ==
    /\ pc[c] \in {"tr_load", "tr_call"} /\ pc'[c] # pc[c]
    /\ Last(trace'[c]) \in {"load_failed", "translate_failed"}

\* C14: when the translator's load or the call on any chunk raises,
\* translate_to_english returns the whole original text, nothing of what
\* was already translated, and raises nothing.
C14_TranslationFallback ==
    [][\A c \in Callers :
          TranslationFailed(c)
             => /\ pc'[c] = AfterTranslate(c)
                /\ The(res'[c]).english_text = The(res[c]).original_text
                /\ The(res'[c]).original_text = The(res[c]).original_text]_vars

C14_Witness ==
    \E c \in Callers :
       /\ pc[c] = "return" /\ call[c].prog = "translate_to_english"
       /\ SourceLanguage(c) = "ar"
       /\ trace[c] = <<"translate", "translate_failed">>
       /\ The(ret[c]).english_text = The(ret[c]).original_text
       /\ Len(TranslatorInputs(StrOf(The(ret[c]).original_text))) = 9

\* The parts put back together with nothing in between.
RECURSIVE ConcatAll(_)
ConcatAll(parts) ==
    IF parts = << >> THEN << >> ELSE Cat(parts[1], ConcatAll(Tail(parts)))

\* The text a translator is about to be called on, whole or in chunks.
TextToTranslate(c) == StrOf(The(res[c]).original_text)

\* C15: a text of at most 500 characters goes to the translator as one
\* chunk equal to the text; a longer text is split into chunks of at most
\* 500 characters which, put together in order with no separator, are the
\* text again.
C15_ChunkRoundTrip ==
    \A c \in Callers :
       pc[c] = "tr_call"
          => LET text == TextToTranslate(c)
                 chunks == TranslatorInputs(text)
             IN  IF StrLen(text) <= ChunkSize
                 THEN chunks = << text >>
                 ELSE /\ ConcatAll(chunks) = text
                      /\ Len(chunks) = (StrLen(text) + ChunkSize - 1) \div ChunkSize
                      /\ \A k \in 1..Len(chunks) :
                            /\ StrLen(chunks[k]) \in 1..ChunkSize
                            /\ k < Len(chunks) => StrLen(chunks[k]) = ChunkSize

C15_Witness ==
    \E c \in Callers :
       /\ pc[c] = "tr_call"
       /\ Len(TextToTranslate(c)) = 2
       /\ Len(TranslatorInputs(TextToTranslate(c))) = 2
       /\ Len(TranslatorInputs(TextToTranslate(c))[2]) = 2
       /\ ConcatAll(TranslatorInputs(TextToTranslate(c))) = TextToTranslate(c)

\* The caller's summarization step: process_article's step 3 or a direct
\* call of summarize_text, at its entry.
SummarizeEntered(c) == pc[c] = "summarize" /\ pc'[c] # "summarize"
TextToSummarize(c) == The(res[c]).english_text

\* C16: on a text of fewer than 200 characters summarize_text returns the
\* text itself and neither loads nor calls the summarizer.
C16_SummarizeFloor ==
    [][\A c \in Callers :
          (SummarizeEntered(c) /\ StrLen(StrOf(TextToSummarize(c))) < MinSummarizeLen)
             => /\ pc'[c] = AfterSummarize(c)
                /\ The(res'[c]).summary = TextToSummarize(c)
                /\ The(res'[c]).english_text = TextToSummarize(c)
                /\ handle' = handle]_vars

C16_Witness ==
    \E c \in Callers :
       /\ pc[c] = "return" /\ call[c].prog = "summarize_text"
       /\ StrLen(StrOf(The(ret[c]).english_text)) = 199
       /\ The(ret[c]).summary = The(ret[c]).english_text
       /\ trace[c] = <<"too_short">>
       /\ handle.sum

\* The step is a summarizer load or call that raised.
SummarizerFailed(c, what) ==
    /\ pc[c] \in {"sum_load", "sum_call"} /\ pc'[c] # pc[c]
    /\ Last(trace'[c]) = what

IsPrefix(s, t) == s = Slice(t, 0, StrLen(s))

C18_OutputTotal ==
    \A c \in Callers :
       (pc[c] = "return" /\ call[c].prog = "test_pipeline" /\ IsSome(ret[c]))
          => \A f \in ContentFields :
                Has(The(ret[c]), f) /\ ~IsNone(The(ret[c])[f])

\* A direct call of detect_language has ended in caller c.
DetectEnded(c) ==
    call[c].prog = "detect_language" /\ pc[c] \in {"return", "raised"}

\* C19: whatever the text and whatever the classifier does with it (any
\* code, or an exception), detect_language ends normally and returns 'en',
\* 'ar', 'fr' or None; a text the classifier fails on, or gives another
\* code for, returns None.
C19_DetectRange ==
    \A c \in Callers :
       DetectEnded(c) =>
          LET text == Art(c)["text"]
              value == The(ret[c]).original_language
          IN  /\ pc[c] = "return"
              /\ IsSome(ret[c])
              /\ \/ IsNone(value)
                 \/ value \in {LangCode("en"), LangCode("ar"), LangCode("fr")}
              /\ (/\ Truthy(text)
                  /\ StrLen(StrOf(text)) >= MinDetectLen
                  /\ LET detected == Classifier(Slice(StrOf(text), 0, DetectSample))
                     IN  detected.raised \/ detected.code \notin {"en", "ar", "fr"})
                 => IsNone(value)

\* A call on 40 characters the classifier reports as German has returned.
C19_Witness ==
    \E c \in Callers :
       /\ DetectEnded(c)
       /\ Art(c)["text"] = PyStr(Slice(Body("s_de"), 0, 40))
       /\ ~Classifier(Slice(Body("s_de"), 0, 40)).raised
       /\ Classifier(Slice(Body("s_de"), 0, 40)).code = "de"
       /\ IsNone(The(ret[c]).original_language)

\* The step in which get_all_articles ran its SELECT without a database
\* error and returned.
Listed(c) ==
    /\ pc[c] = "listing" /\ pc'[c] = "return"
    /\ Last(trace'[c]) = "listed"

\* The list is in order, most recently processed first.
NewestFirst(articles) ==
    \A i, j \in 1..Len(articles) :
       i < j => SecondOf(articles[i].date_processed)
                   >= SecondOf(articles[j].date_processed)

\* The list holds every row of the table, each once.
ListsEveryRow(articles, table) ==
    /\ Len(articles) = Len(table)
    /\ \A k \in 1..Len(table) :
          \E i \in 1..Len(articles) : articles[i] = ArticleOfRow(table[k])

\* C20: get_all_articles(n) returns at most n records, most recently
\* processed first, and get_all_articles() returns every stored record in
\* that order (calls the database answers).
C20_Listing ==
    [][\A c \in Callers :
          Listed(c) =>
             LET limit == Art(c).limit
                 articles == The(ret'[c])
             IN  /\ NewestFirst(articles)
                 /\ IsSome(limit) => Len(articles) <= The(limit)
                 /\ ~IsSome(limit) => ListsEveryRow(articles, store)]_vars

\* The same for a limit of at least 1 and for no limit, and the most a
\* limit leaves out: the list has min(n, rows) records.
C20_ListingPositive ==
    [][\A c \in Callers :
          Listed(c) =>
             LET limit == Art(c).limit
                 articles == The(ret'[c])
             IN  /\ NewestFirst(articles)
                 /\ (IsSome(limit) /\ The(limit) >= 1)
                       => Len(articles) = Min(The(limit), Len(store))
                 /\ ~IsSome(limit) => ListsEveryRow(articles, store)]_vars

\* A call with limit 1 has returned the newer of two rows stamped in
\* different seconds.
C20_Witness ==
    \E c \in Callers :
       /\ pc[c] = "return" /\ call[c].prog = "get_all_articles"
       /\ Art(c).limit = Some(1)
       /\ Last(trace[c]) = "listed"
       /\ Len(store) = 2
       /\ store[1].date_processed # store[2].date_processed
       /\ The(ret[c]) = << ArticleOfRow(store[2]) >>

\* How far a position of a caller is into process_article: the steps in the
\* order of the code.
StepRank(p) ==
    CASE p = "idle" -> 0
      [] p = "process" -> 1
      [] p = "translate" -> 2
      [] p = "tr_load" -> 3
      [] p = "tr_call" -> 4
      [] p = "summarize" -> 5
      [] p = "sum_load" -> 6
      [] p = "sum_call" -> 7
      [] p = "complete" -> 8
      [] p = "processed" -> 9
      [] OTHER -> 10

InTranslate(c) == pc[c] \in {"translate", "tr_load", "tr_call"}
InSummarize(c) == pc[c] \in {"summarize", "sum_load", "sum_call"}

\* The values translate_to_english can give for the text: the text itself,
\* or the joined translations of its chunks.
TranslateOutcomes(text, language) ==
    {text} \cup
    (IF IsNone(text) \/ language \notin {"ar", "fr"} THEN {}
     ELSE {PyStr(TranslateCalls(StrOf(text), language, 0).val)})

\* The values summarize_text can give for a text and a max_length: the
\* text, its first 4000 characters, or the model's summary of those.
SummarizeOutcomes(text, max_length) ==
    {text, PyStr(SummarizerInput(StrOf(text))),
     PyStr(SummarizerOut(SummarizerInput(StrOf(text)), max_length,
                         DefaultMinLength))}

\* C21: process_article goes through Detect, Translate, Summarize and
\* Complete in that order, each at most once; Translate starts only with a
\* supported code from Detect; english_text does not change once Summarize
\* has started; and the summary is made from english_text, the text the
\* Translate stage produced from the article's text.
C21_StageOrder ==
    /\ [](\A c \in Callers :
            (call[c].prog = "test_pipeline" /\ IsSome(res[c])) =>
               LET r == The(res[c])
               IN  /\ InTranslate(c) =>
                         /\ r.original_language = DetectLanguage(Art(c)["text"])
                         /\ CodeOf(r.original_language) \in {"en", "ar", "fr"}
                         /\ IsNone(r.english_text) /\ IsNone(r.summary)
                   /\ (InSummarize(c) \/ pc[c] = "complete") =>
                         r.english_text \in
                            TranslateOutcomes(r.original_text,
                                              CodeOf(r.original_language))
                   /\ InSummarize(c) => IsNone(r.summary)
                   /\ pc[c] = "complete" =>
                         r.summary \in SummarizeOutcomes(r.english_text,
                                                         call[c].maxlen))
    /\ [][\A c \in Callers :
            (call[c].prog = "test_pipeline" /\ pc'[c] # pc[c] /\ pc'[c] # "idle") =>
               /\ StepRank(pc[c]) < StepRank(pc'[c])
               /\ (InSummarize(c) /\ IsSome(res'[c])) =>
                     The(res'[c]).english_text = The(res[c]).english_text]_vars

\* The Arabic article is at Complete, translated and summarized.
C21_Witness ==
    \E c \in Callers :
       /\ call[c].prog = "test_pipeline" /\ pc[c] = "complete"
       /\ trace[c] = <<"detect", "translate", "load_ar", "translated",
                       "summarize", "load_sum", "summarized">>
       /\ The(res[c]).english_text # The(res[c]).original_text
       /\ The(res[c]).summary # The(res[c]).english_text

\* The steps in which a handle was constructed.
LoadSteps == {"load_ar", "load_fr", "load_sum"}

\* How many constructions of a handle the sessions' current calls made.
Constructions(what) ==
    Cardinality({c \in Sessions : TraceHas(c, what)})

\* C22: when two callers need a handle that is not yet constructed, the
\* check of the handle and its construction exclude each other, so the
\* handle is constructed exactly once whatever the interleaving.
C22_ConstructedOnce ==
    \A what \in LoadSteps : Constructions(what) <= 1

Handles == {"ar", "fr", "sum"}

\* The handle the call of caller c is for, at its present step.
HandleOf(c) ==
    IF pc[c] \in {"tr_load", "tr_call"}
    THEN CodeOf(The(res[c]).original_language)
    ELSE "sum"

\* Caller c constructs a model in this step.
Constructs(c) ==
    /\ pc[c] \in {"tr_load", "sum_load"}
    /\ trace'[c] # trace[c]
    /\ Last(trace'[c]) \in LoadSteps

\* C23: over calls made one at a time, a handle is constructed only while
\* it is None, so at most once; a handle that is set is never reset; and a
\* step changes no handle but the one of the task it constructs a model for.
C23_HandleReuse ==
    [][/\ \A h \in Handles : handle[h] => handle'[h]
       /\ \A c \in Callers :
             Constructs(c) =>
                /\ ~handle[HandleOf(c)]
                /\ handle' = [handle EXCEPT ![HandleOf(c)] = TRUE]
       /\ (\A c \in Callers : ~Constructs(c)) => handle' = handle]_vars

\* A later Arabic translation runs on the handle an earlier call made: no
\* load step, and the other two handles are still None.
C23_Witness ==
    \E c \in Callers :
       /\ call[c].prog = "translate_to_english" /\ pc[c] = "return"
       /\ trace[c] = <<"translate", "translated">>
       /\ CodeOf(The(ret[c]).original_language) = "ar"
       /\ handle = [ar |-> TRUE, fr |-> FALSE, sum |-> FALSE]

\* The translator calls ended in this step of caller c, all made or one of
\* them raising.
TranslatorCalled(c) == pc[c] = "tr_call" /\ pc'[c] # "tr_call"

\* The invocations caller c makes in this step.
NewlySent(c) == SubSeq(sent'[c], Len(sent[c]) + 1, Len(sent'[c]))

\* ceil(n / 500)
ChunkCount(n) == (n + ChunkSize - 1) \div ChunkSize

\* The calls are on the text's consecutive 500-character windows, from the
\* first on: at most 500 characters each, none empty, and exactly 500 in
\* every window that is not the text's last.
OnWindows(calls, text) ==
    \A k \in 1..Len(calls) :
       /\ calls[k].text = Slice(text, (k - 1) * ChunkSize, k * ChunkSize)
       /\ StrLen(calls[k].text) \in 1..ChunkSize
       /\ k < ChunkCount(StrLen(text)) => StrLen(calls[k].text) = ChunkSize

\* C24, as stated: a text of more than 500 characters is passed to the
\* translator in chunks of at most 500 characters, none empty, all but the
\* last of exactly 500, in ceil(len(text)/500) calls; a shorter text in
\* exactly one call on the whole text.
C24_ChunkCalls ==
    [][\A c \in Callers :
          TranslatorCalled(c) =>
             LET text == TextToTranslate(c)
                 calls == NewlySent(c)
             IN  IF StrLen(text) > ChunkSize
                 THEN /\ OnWindows(calls, text)
                      /\ Len(calls) = ChunkCount(StrLen(text))
                 ELSE /\ Len(calls) = 1
                      /\ calls[1].text = text]_vars

\* C24, amended: the same, with the number of calls being
\* ceil(len(text)/500) when no call raises; when a call raises it is the
\* last one made, so there are between 1 and ceil(len(text)/500) calls, on
\* the first windows of the text.
C24_ChunkCallsUnlessRaised ==
    [][\A c \in Callers :
          TranslatorCalled(c) =>
             LET text == TextToTranslate(c)
                 calls == NewlySent(c)
                 raised == Last(trace'[c]) = "translate_failed"
             IN  IF StrLen(text) > ChunkSize
                 THEN /\ OnWindows(calls, text)
                      /\ Len(calls) \in 1..ChunkCount(StrLen(text))
                      /\ ~raised => Len(calls) = ChunkCount(StrLen(text))
                 ELSE /\ Len(calls) = 1
                      /\ calls[1].text = text]_vars

\* A text of 1001 characters was translated in three calls, the last on
\* one character.
C24_Witness ==
    \E c \in Callers :
       /\ call[c].prog = "translate_to_english" /\ pc[c] = "return"
       /\ Len(sent[c]) = 3
       /\ StrLen(sent[c][3].text) = 1
       /\ StrLen(StrOf(The(ret[c]).original_text)) = 1001
       /\ Last(trace[c]) = "translated"

\* The k-th 500-character window of a text.
Window(text, k) == Slice(text, (k - 1) * ChunkSize, k * ChunkSize)

\* Translations t1 .. tn laid out as t1, ' ', t2, ' ', ..., tn: position
\* 2k-1 holds the translation of the k-th window, every even position one
\* space.
SpacedTranslations(text, lang) ==
    LET n == ChunkCount(StrLen(text))
    IN  [j \in 1..(2 * n - 1) |->
           IF j % 2 = 1 THEN TranslatorOut(lang, Window(text, (j + 1) \div 2))
           ELSE Space]

\* The number of single-space pieces of a str.
Spaces(s) == Cardinality({i \in 1..Len(s) : << s[i] >> = Space})

\* C25: when every chunk's translation succeeds, the chunks are translated
\* one after another in input order and the result is their translations
\* in that order with exactly one space between consecutive ones: n - 1
\* separators for n chunks.
C25_JoinOrder ==
    [][\A c \in Callers :
          (/\ TranslatorCalled(c)
           /\ Last(trace'[c]) = "translated"
           /\ StrLen(TextToTranslate(c)) > ChunkSize) =>
             LET text == TextToTranslate(c)
                 n == ChunkCount(StrLen(text))
                 calls == NewlySent(c)
                 translated == StrOf(The(res'[c]).english_text)
             IN  /\ Len(calls) = n
                 /\ \A k \in 1..n : calls[k].text = Window(text, k)
                 /\ translated = ConcatAll(SpacedTranslations(text, SourceLanguage(c)))
                 /\ StrLen(translated) =
                       (n - 1) + StrLen(ConcatAll(
                          [k \in 1..n |->
                             TranslatorOut(SourceLanguage(c), Window(text, k))]))
                 /\ Spaces(translated) = n - 1]_vars

\* A French text of 1000 characters came back as two translations with one
\* space between them.
C25_Witness ==
    \E c \in Callers :
       /\ call[c].prog = "translate_to_english" /\ pc[c] = "return"
       /\ Len(sent[c]) = 2
       /\ Last(trace[c]) = "translated"
       /\ SourceLanguage(c) = "fr"
       /\ LET text == StrOf(The(ret[c]).original_text)
          IN  /\ StrLen(text) = 1000
              /\ StrOf(The(ret[c]).english_text) =
                    TranslatorOut("fr", Window(text, 1)) \o Space
                       \o TranslatorOut("fr", Window(text, 2))

\* The invocations of the summarizer in the call of caller c.
SummarizerInvocations(c) ==
    SelectSeq(sent[c], LAMBDA inv : inv.model = "sum")

\* C26: the summarizer is invoked only on texts of at least 200 characters,
\* and what it is handed is the leading min(len(text), 4000) characters of
\* the text summarize_text was called on: never more than 4000 characters,
\* never anything but a prefix of the input.
C26_SummarizerInputBound ==
    \A c \in Callers :
       LET invs == SummarizerInvocations(c)
       IN  invs # << >> =>
              LET text == StrOf(TextToSummarize(c))
                  given == invs[1].text
              IN  /\ Len(invs) = 1
                  /\ StrLen(text) >= MinSummarizeLen
                  /\ StrLen(given) = Min(StrLen(text), MaxSummarizeLen)
                  /\ StrLen(given) <= MaxSummarizeLen
                  /\ IsPrefix(given, text)

\* summarize_text on 4100 characters has returned a summary; the model got
\* the first 4000.
C26_Witness ==
    \E c \in Callers :
       /\ pc[c] = "return" /\ call[c].prog = "summarize_text"
       /\ LastStep(c) = "summarized"
       /\ StrLen(StrOf(The(ret[c]).english_text)) = 4100
       /\ Len(sent[c]) = 1
       /\ StrLen(sent[c][1].text) = 4000

\* C27: at every invocation of the summarizer, for every position of the
\* slider (30 to 200 words in steps of 10, through words_to_tokens) and for
\* the fixed budget of 100, min_length is at most max_length.
C27_BudgetsConsistent ==
    \A c \in Callers :
       \A i \in 1..Len(sent[c]) :
          sent[c][i].model = "sum"
             => sent[c][i].min_length <= sent[c][i].max_length

\* The same for the positions from 40 words on and for the fixed budget.
C27_BudgetsFromForty ==
    \A c \in Callers :
       \A i \in 1..Len(sent[c]) :
          (sent[c][i].model = "sum"
             /\ sent[c][i].max_length >= WordsToTokens(40))
             => sent[c][i].min_length <= sent[c][i].max_length

\* The slider at 30 words: the summarizer was invoked with max_length 39
\* and min_length 50.
C27_Witness ==
    \E c \in Callers :
       /\ call[c].prog = "app" /\ call[c].maxlen = WordsToTokens(30)
       /\ LastStep(c) = "summarized"
       /\ sent[c] # << >>
       /\ Last(sent[c]).max_length = 39
       /\ Last(sent[c]).min_length = DefaultMinLength

\* The forced request of a forced-then-unforced pair has returned.
ForcedReturned(c) ==
    call[c].prog = "refresh" /\ call[c].n = 1 /\ pc[c] \in {"return", "raised"}

\* The unforced request after it has returned.
UnforcedReturned(c) ==
    call[c].prog = "refresh" /\ call[c].n = 2 /\ pc[c] \in {"return", "raised"}

\* The stored row of the caller's url, as a record.
StoredArticle(c) ==
    ArticleOfRow(store[CHOOSE i \in UrlRows(c) : \A j \in UrlRows(c) : i <= j])

\* No step of a forced-then-unforced pair changes the rows of its url.
RowsOfUrlKept(c) ==
    call[c].prog = "refresh" =>
       /\ UrlRowsAfter(c) = UrlRows(c)
       /\ \A i \in UrlRows(c) : store'[i] = store[i]

AgainAt(c) ==
    IF TraceHas(c, "again")
    THEN CHOOSE k \in 1..Len(trace[c]) : trace[c][k] = "again"
    ELSE 0

\* The steps of the first request.
FirstSteps(c) ==
    IF AgainAt(c) = 0 THEN trace[c] ELSE SubSeq(trace[c], 1, AgainAt(c) - 1)

\* The steps of the second request.
SecondSteps(c) == SubSeq(trace[c], AgainAt(c) + 1, Len(trace[c]))

Follows(steps, first, next) ==
    \E k \in 1..(Len(steps) - 1) : steps[k] = first /\ steps[k + 1] = next

\* The first request found no row and its run fell back in translation or
\* in summarization.
TranslationFellBack(c) ==
    LET steps == FirstSteps(c)
    IN  \/ \E k \in 1..Len(steps) : steps[k] = "translate_failed"
        \/ Follows(steps, "translate", "load_failed")

SummarizationFellBack(c) ==
    LET steps == FirstSteps(c)
    IN  \/ \E k \in 1..Len(steps) : steps[k] = "summarize_failed"
        \/ Follows(steps, "summarize", "load_failed")

DegradedMissRun(c) ==
    /\ call[c].prog = "demo"
    /\ trace[c] # << >> /\ trace[c][1] = "miss"
    /\ TranslationFellBack(c) \/ SummarizationFellBack(c)

\* cache_demo's first request has ended.
FirstEnded(c) ==
    call[c].prog = "demo" /\ call[c].n = 1 /\ pc[c] \in {"return", "raised"}

\* The record shows the fallback: english_text is the untranslated text,
\* the summary is the unsummarized text (cut to 4000 if the call raised).
ShowsFallback(c, record) ==
    /\ TranslationFellBack(c) => record.english_text = record.original_text
    /\ SummarizationFellBack(c) =>
          IsPrefix(StrOf(record.summary), StrOf(record.english_text))

SixFields ==
    {"url", "source", "title", "original_language", "original_text", "summary"}

\* A value that is there and not empty.
Filled(v) == v # PyNone /\ v # PyStr(<< >>)

\* One of the six is missing from the record, or None, or ''.
Incomplete(record) ==
    \E f \in SixFields : f \notin DOMAIN record \/ ~Filled(record[f])

\* The step in which save_article ran on the argument of a direct call.
SaveRan(c) == pc[c] = "saving" /\ pc'[c] = "return"

\* C30: save_article returns False and writes nothing for a record in which
\* one of url, source, title, original_language, original_text, summary is
\* missing or empty, whatever the database does; so every row of the table
\* has the six of them non-empty.
C30_ValidatesBeforeWrite ==
    /\ [][\A c \in Callers :
            (SaveRan(c) /\ Incomplete(Art(c))) =>
               /\ The(ret'[c]).ok = FALSE
               /\ store' = store
               /\ nextId' = nextId
               /\ Last(trace'[c]) = "invalid"]_vars
    /\ [](\A i \in 1..Len(store) : \A f \in SixFields : Filled(store[i][f]))

\* A record with an empty summary was refused with a row of another url in
\* the table.
C30_Witness ==
    \E c \in Callers :
       /\ call[c].prog = "save_article" /\ pc[c] = "return"
       /\ Art(c) = [ByHand(Url1, Title1) EXCEPT !.summary = PyStr(<< >>)]
       /\ The(ret[c]).ok = FALSE
       /\ Len(store) = 1 /\ store[1].url = Url2

====
